---------------------------- MODULE Spec2Model ----------------------------
(***************************************************************************)
(* Survival-analysis tutorial notebooks (Part 2: censoring, the autodiff   *)
(* notebook, Part 6: the Delta method) as state machines over a Jupyter    *)
(* kernel namespace, together with the numeric functions the cells define. *)
(*                                                                         *)
(* Numbers.  A float is modelled as an extended real: one of the IEEE      *)
(* special values inf, -inf, nan, or a finite real of the form             *)
(*        e^q * n(L),      L = ln 2,                                       *)
(* with q rational and n a polynomial in L with rational coefficients.     *)
(* On the dyadic inputs used here every finite value the notebooks compute *)
(* has this form exactly, so np.log and np.exp are computed, not assumed.  *)
(* The range of a double is kept where ** leaves it on a power of two: the *)
(* result is inf from 2^1024 on and 0 from 2^-1075 down.  Rounding of      *)
(* finite values and the sign of zero are outside the model.               *)
(***************************************************************************)
EXTENDS Integers, Sequences, FiniteSets, TLC

(***************************************************************************)
(* Rationals: <<n, d>> with d > 0 and gcd(|n|, d) = 1.                     *)
(***************************************************************************)
Abs(x) == IF x < 0 THEN -x ELSE x

RECURSIVE GCD(_, _)
GCD(a, b) == IF b = 0 THEN a ELSE GCD(b, a % b)

Rat(n, d) ==
    LET g == GCD(Abs(n), Abs(d))
    IN  IF d < 0 THEN << (-n) \div g, (-d) \div g >> ELSE << n \div g, d \div g >>

RZero == <<0, 1>>
RAdd(a, b) == Rat(a[1] * b[2] + b[1] * a[2], a[2] * b[2])
RNeg(a) == << -a[1], a[2] >>
RMul(a, b) == Rat(a[1] * b[1], a[2] * b[2])
RInv(a) == Rat(a[2], a[1])
RSign(a) == IF a[1] > 0 THEN 1 ELSE IF a[1] < 0 THEN -1 ELSE 0
RLeq(a, b) == a[1] * b[2] <= b[1] * a[2]

(***************************************************************************)
(* Polynomials in L = ln 2: a sequence of rational coefficients, lowest    *)
(* degree first, with no trailing zero coefficient (<< >> is zero).        *)
(***************************************************************************)
\* a sequence given as a function, with its elements evaluated
Tuple(f) == << >> \o f

RECURSIVE PTrimmed(_)
PTrimmed(p) ==
    IF p = << >> THEN p
    ELSE IF p[Len(p)] = RZero THEN PTrimmed(SubSeq(p, 1, Len(p) - 1))
    ELSE p
PTrim(p) == PTrimmed(Tuple(p))

PCoef(p, i) == IF i >= 1 /\ i <= Len(p) THEN p[i] ELSE RZero
PAdd(p, r) ==
    PTrim([i \in 1..(IF Len(p) > Len(r) THEN Len(p) ELSE Len(r)) |->
              RAdd(PCoef(p, i), PCoef(r, i))])

RECURSIVE RSumTo(_, _)
RSumTo(f, n) == IF n = 0 THEN RZero ELSE RAdd(f[n], RSumTo(f, n - 1))

PMul(p, r) ==
    IF p = << >> \/ r = << >> THEN << >>
    ELSE PTrim([k \in 1..(Len(p) + Len(r) - 1) |->
                  RSumTo(Tuple([i \in 1..Len(p) |-> RMul(p[i], PCoef(r, k + 1 - i))]),
                         Len(p))])

(***************************************************************************)
(* Extended reals.  Every value is a record with the same fields; the tag  *)
(* k is "fin", "inf", "ninf" or "nan".  A finite value is e^q * n(L); zero *)
(* has q = 0, so equal numbers are equal records.                          *)
(***************************************************************************)
\* a value outside the numbers of the model: evaluating it is an error
Unrepresentable == CHOOSE v \in {} : TRUE

Inf == [k |-> "inf", q |-> RZero, n |-> << >>]
NInf == [k |-> "ninf", q |-> RZero, n |-> << >>]
NaN == [k |-> "nan", q |-> RZero, n |-> << >>]

Fin(q, n) == [k |-> "fin", q |-> IF n = << >> THEN RZero ELSE q, n |-> n]

FromRat(r) == Fin(RZero, PTrim(<< r >>))
Num(a, b) == FromRat(Rat(a, b))
Zero == Num(0, 1)
One == Num(1, 1)

IsFin(v) == v.k = "fin"
IsZero(v) == v.k = "fin" /\ v.n = << >>
\* a finite value that is a plain rational number
IsRat(v) == v.k = "fin" /\ v.q = RZero /\ Len(v.n) <= 1
AsRat(v) == PCoef(v.n, 1)

RECURSIVE IPow(_, _)
IPow(b, e) == IF e = 0 THEN 1 ELSE b * IPow(b, e - 1)

\* Fixed point with FixBits binary places: ln 2 lies strictly between
\* LnLo / 2^FixBits and (LnLo + 1) / 2^FixBits.
FixBits == 14
FixOne == IPow(2, FixBits)
LnLo == 11356

\* Horner's rule in interval arithmetic, rounding outward:
\* <<lo, hi>> with lo <= 2^FixBits * (c[i] + c[i+1] L + ...) <= hi,
\* for coefficients of absolute value at most 1
RECURSIVE Horner(_, _)
Horner(c, i) ==
    IF i > Len(c) THEN << 0, 0 >>
    ELSE LET v == Horner(c, i + 1)
             lo == IF v[1] >= 0 THEN v[1] * LnLo ELSE v[1] * (LnLo + 1)
             hi == IF v[2] >= 0 THEN v[2] * (LnLo + 1) ELSE v[2] * LnLo
         IN  << ((c[i][1] * FixOne) \div c[i][2]) + (lo \div FixOne),
                -(((-c[i][1]) * FixOne) \div c[i][2]) - ((-hi) \div FixOne) >>

\* Sign of a polynomial at L = ln 2
PSign(p) ==
    IF p = << >> THEN 0
    ELSE IF \A i \in 1..Len(p) : RSign(p[i]) >= 0 THEN 1
    ELSE IF \A i \in 1..Len(p) : RSign(p[i]) <= 0 THEN -1
    ELSE LET j == CHOOSE i \in 1..Len(p) :
                      \A h \in 1..Len(p) : RLeq(<<Abs(p[h][1]), p[h][2]>>,
                                                 <<Abs(p[i][1]), p[i][2]>>)
             m == << p[j][2], Abs(p[j][1]) >>
             v == Horner(Tuple([i \in 1..Len(p) |-> RMul(p[i], m)]), 1)
         IN  IF v[1] > 0 THEN 1
             ELSE IF v[2] < 0 THEN -1
             ELSE Unrepresentable

\* -1, 0, 1 for a non-nan value that is infinite or e^q times a rational
Sign(v) ==
    CASE v.k = "inf" -> 1
      [] v.k = "ninf" -> -1
      [] v.k = "fin" -> IF Len(v.n) <= 1 THEN RSign(AsRat(v)) ELSE Unrepresentable

SignedInf(s) == IF s > 0 THEN Inf ELSE NInf

Neg(v) ==
    CASE v.k = "nan" -> NaN
      [] v.k = "inf" -> NInf
      [] v.k = "ninf" -> Inf
      [] v.k = "fin" -> [v EXCEPT !.n = Tuple([i \in 1..Len(v.n) |-> RNeg(v.n[i])])]

Add(a, b) ==
    CASE a.k = "nan" \/ b.k = "nan" -> NaN
      [] a.k = "fin" /\ b.k = "fin" ->
            IF IsZero(a) THEN b
            ELSE IF IsZero(b) THEN a
            ELSE IF a.q = b.q THEN Fin(a.q, PAdd(a.n, b.n))
            ELSE Unrepresentable
      [] a.k = "fin" -> b
      [] b.k = "fin" -> a
      [] OTHER -> IF a.k = b.k THEN a ELSE NaN

Sub(a, b) == Add(a, Neg(b))

Mul(a, b) ==
    CASE a.k = "nan" \/ b.k = "nan" -> NaN
      [] a.k = "fin" /\ b.k = "fin" -> Fin(RAdd(a.q, b.q), PMul(a.n, b.n))
      [] OTHER -> IF IsZero(a) \/ IsZero(b) THEN NaN
                  ELSE SignedInf(Sign(a) * Sign(b))

\* a finite divisor is e^q * r with r rational: its reciprocal is e^-q / r
Div(a, b) ==
    CASE a.k = "nan" \/ b.k = "nan" -> NaN
      [] a.k = "fin" /\ b.k = "fin" ->
            IF IsZero(b)
            THEN (IF IsZero(a) THEN NaN ELSE SignedInf(Sign(a)))
            ELSE IF Len(b.n) = 1 THEN Mul(a, Fin(RNeg(b.q), << RInv(b.n[1]) >>))
            ELSE Unrepresentable
      [] a.k = "fin" -> Zero
      [] b.k = "fin" -> IF IsZero(b) THEN a ELSE SignedInf(Sign(a) * Sign(b))
      [] OTHER -> NaN

\* exact integer roots and powers of two

RRoot(r, d) ==
    IF d = 1 THEN r
    ELSE IF d = 2 THEN << CHOOSE m \in 0..r[1] : m * m = r[1],
                          CHOOSE m \in 0..r[2] : m * m = r[2] >>
    ELSE Unrepresentable

\* r > 0 to the rational power y
RPow(r, y) ==
    LET b == RRoot(r, y[2])
        e == Abs(y[1])
        p == << IPow(b[1], e), IPow(b[2], e) >>
    IN  IF y[1] >= 0 THEN p ELSE RInv(p)

\* log2 of a positive rational that is a power of two
RLog2(r) ==
    IF r[2] = 1 THEN CHOOSE e \in 0..30 : IPow(2, e) = r[1]
    ELSE IF r[1] = 1 THEN -(CHOOSE e \in 0..30 : IPow(2, e) = r[2])
    ELSE Unrepresentable

\* np.log: log(0) = -inf and log(x < 0) = nan are returned, not raised.
\* log(e^q * 2^m) = q + m L.
Log(v) ==
    CASE v.k = "nan" -> NaN
      [] v.k = "inf" -> Inf
      [] v.k = "ninf" -> NaN
      [] v.k = "fin" ->
            IF IsZero(v) THEN NInf
            ELSE IF Sign(v) < 0 THEN NaN
            ELSE Fin(RZero, PTrim(<< v.q, <<RLog2(v.n[1]), 1>> >>))

\* np.exp of a + m L (m an integer) is e^a * 2^m.
Exp(v) ==
    CASE v.k = "nan" -> NaN
      [] v.k = "inf" -> Inf
      [] v.k = "ninf" -> Zero
      [] v.k = "fin" ->
            IF v.q = RZero /\ Len(v.n) <= 2 /\ PCoef(v.n, 2)[2] = 1
            THEN Fin(PCoef(v.n, 1), << RPow(<<2, 1>>, PCoef(v.n, 2)) >>)
            ELSE Unrepresentable

\* float64: 2^e is inf for e >= OverflowExp, and 2^-e rounds to 0 for
\* e >= UnderflowExp (half the smallest subnormal, a tie that goes to even)
OverflowExp == 1024
UnderflowExp == 1075

\* x ** y for a rational exponent y (numpy float power)
Pow(x, y) ==
    LET ye == AsRat(y)
        \* the exponent of 2 in the exact result, when x is a power of two
        \* and y an integer
        Pow2 == ye[2] = 1 /\ \E m \in 0..30 :
                                AsRat(x) \in { <<IPow(2, m), 1>>, <<1, IPow(2, m)>> }
        e2 == RLog2(AsRat(x)) * ye[1]
    IN
    CASE ~IsRat(y) -> Unrepresentable
      [] IsRat(y) /\ IsZero(y) -> One
      [] IsRat(y) /\ ~IsZero(y) /\ x.k = "nan" -> NaN
      [] IsRat(y) /\ ~IsZero(y) /\ x.k = "inf" ->
            IF RSign(ye) > 0 THEN Inf ELSE Zero
      [] IsRat(y) /\ ~IsZero(y) /\ x.k = "ninf" ->
            IF RSign(ye) < 0 THEN Zero
            ELSE IF ye[2] = 1 /\ ye[1] % 2 = 1 THEN NInf ELSE Inf
      [] IsRat(y) /\ ~IsZero(y) /\ x.k = "fin" ->
            IF ~IsRat(x) THEN Unrepresentable
            ELSE IF IsZero(x) THEN (IF RSign(ye) > 0 THEN Zero ELSE Inf)
            ELSE IF RSign(AsRat(x)) > 0
                 THEN (IF ~Pow2 THEN FromRat(RPow(AsRat(x), ye))
                       ELSE IF e2 >= OverflowExp THEN Inf
                       ELSE IF e2 <= -UnderflowExp THEN Zero
                       ELSE FromRat(RPow(<<2, 1>>, <<e2, 1>>)))
            ELSE IF ye[2] = 1
                 THEN FromRat(RMul(<< IF ye[1] % 2 = 1 THEN -1 ELSE 1, 1 >>,
                                   RPow(RNeg(AsRat(x)), ye)))
                 ELSE NaN

\* np.sqrt: the root of a negative number is nan, returned and not raised.
\* The root of a positive finite value v is kept as v tagged "sqrt".
Sqrt(v) ==
    CASE v.k = "nan" -> NaN
      [] v.k = "inf" -> Inf
      [] v.k = "ninf" -> NaN
      [] v.k = "fin" ->
            IF PSign(v.n) = 0 THEN Zero
            ELSE IF PSign(v.n) < 0 THEN NaN
            ELSE [v EXCEPT !.k = "sqrt"]

\* c * w for a rational c > 0 and a root w
MulRoot(c, w) ==
    IF w.k = "sqrt" THEN [Mul(Mul(c, c), [w EXCEPT !.k = "fin"]) EXCEPT !.k = "sqrt"]
    ELSE Mul(c, w)

\* a + w and a - w for a root w: kept as the pair (a, signed root)
AddRoot(a, w) ==
    IF w.k = "sqrt"
    THEN (IF a.k = "fin" THEN [k |-> "sum", a |-> a, sign |-> 1, r |-> w] ELSE a)
    ELSE Add(a, w)
SubRoot(a, w) ==
    IF w.k = "sqrt"
    THEN (IF a.k = "fin" THEN [k |-> "sum", a |-> a, sign |-> -1, r |-> w] ELSE a)
    ELSE Sub(a, w)

\* np.where(c, a, b) on scalars: c is true when it is not zero
Where(c, a, b) == IF IsZero(c) THEN b ELSE a

(***************************************************************************)
(* numpy arrays are sequences of values; arithmetic is elementwise.        *)
(***************************************************************************)
ArrMul(a, b) == Tuple([i \in DOMAIN a |-> Mul(a[i], b[i])])

RECURSIVE SumTo(_, _)
SumTo(a, n) == IF n = 0 THEN Zero ELSE Add(SumTo(a, n - 1), a[n])
NpSum(a) == SumTo(a, Len(a))

(***************************************************************************)
(* Part 2 (censoring): the Weibull model in closed form.                   *)
(* params is the pair <<lambda_, rho_>>.                                   *)
(***************************************************************************)
\* cumulative_hazard with the ratio turned over: (lambda_ / t) ** rho_
P2_cumulative_hazard_inverted(params, t) ==
    LET lambda_ == params[1]
        rho_ == params[2]
    IN  Pow(Div(lambda_, t), rho_)

P2_cumulative_hazard(params, t) ==
    LET lambda_ == params[1]
        rho_ == params[2]
    IN  Pow(Div(t, lambda_), rho_)

P2_hazard(params, t) ==
    LET lambda_ == params[1]
        rho_ == params[2]
    IN  Mul(Div(rho_, lambda_), Pow(Div(t, lambda_), Sub(rho_, One)))

P2_log_hazard(params, t) == Log(P2_hazard(params, t))

P2_log_likelihood(params, t, e) ==
    Sub(NpSum(ArrMul(e, Tuple([i \in DOMAIN t |-> P2_log_hazard(params, t[i])]))),
        NpSum(Tuple([i \in DOMAIN t |-> P2_cumulative_hazard(params, t[i])])))

P2_negative_log_likelihood(params, t, e) == Neg(P2_log_likelihood(params, t, e))

\* the curve drawn by the last cell: np.exp(-cumulative_hazard(results.x, t))
P2_plotted_survival(x, t) == Exp(Neg(P2_cumulative_hazard(x, t)))

(***************************************************************************)
(* The automatic-differentiation notebook: log_hazard written out in logs. *)
(***************************************************************************)
P3_cumulative_hazard(params, t) ==
    LET lambda_ == params[1]
        rho_ == params[2]
    IN  Pow(Div(t, lambda_), rho_)

P3_log_hazard(params, t) ==
    LET lambda_ == params[1]
        rho_ == params[2]
    IN  Add(Sub(Log(rho_), Log(lambda_)),
            Mul(Sub(rho_, One), Sub(Log(t), Log(lambda_))))

P3_log_likelihood(params, t, e) ==
    Sub(NpSum(ArrMul(e, Tuple([i \in DOMAIN t |-> P3_log_hazard(params, t[i])]))),
        NpSum(Tuple([i \in DOMAIN t |-> P3_cumulative_hazard(params, t[i])])))

P3_negative_log_likelihood(params, t, e) == Neg(P3_log_likelihood(params, t, e))

(***************************************************************************)
(* Part 6 (the Delta method): the hazard is autograd's derivative of the   *)
(* cumulative hazard.  autograd runs the function forward and multiplies   *)
(* the vector-Jacobian products of its primitives backward:                *)
(*    x ** y  w.r.t. x :  g * y * x ** where(y, y - 1, 1.)                 *)
(*    x ** y  w.r.t. y :  g * log(replace_zero(x, 1.)) * x ** y            *)
(*    x / y   w.r.t. x :  g / y                                            *)
(*    x / y   w.r.t. y :  -g * x / y ** 2                                  *)
(*    exp(x)           :  g * ans                                          *)
(*    -x               :  -g                                               *)
(***************************************************************************)
P6_cumulative_hazard(params, t) ==
    LET lambda_ == params[1]
        rho_ == params[2]
    IN  Pow(Div(t, lambda_), rho_)

VjpPowBase(g, x, y) == Mul(Mul(g, y), Pow(x, Where(y, Sub(y, One), One)))
ReplaceZero(x, val) == IF IsZero(x) THEN val ELSE x
VjpPowExponent(g, x, y) == Mul(Mul(g, Log(ReplaceZero(x, One))), Pow(x, y))
VjpDivNumerator(g, x, y) == Div(g, y)
VjpDivDenominator(g, x, y) == Div(Mul(Neg(g), x), Pow(y, Num(2, 1)))

\* elementwise_grad taken in argument 0 (lambda_) where the cell says argnum=1
P6_hazard_argnum0(params, t) ==
    LET lambda_ == params[1]
        rho_ == params[2]
        u == Div(t, lambda_)
        gu == VjpPowBase(One, u, rho_)
    IN  VjpDivDenominator(gu, t, lambda_)

\* hazard = elementwise_grad(cumulative_hazard, argnum=1)
P6_hazard(params, t) ==
    LET lambda_ == params[1]
        rho_ == params[2]
        u == Div(t, lambda_)
        gu == VjpPowBase(One, u, rho_)
    IN  VjpDivNumerator(gu, t, lambda_)

P6_log_hazard(params, t) == Log(P6_hazard(params, t))

P6_log_likelihood(params, t, e) ==
    Sub(NpSum(ArrMul(e, Tuple([i \in DOMAIN t |-> P6_log_hazard(params, t[i])]))),
        NpSum(Tuple([i \in DOMAIN t |-> P6_cumulative_hazard(params, t[i])])))

P6_negative_log_likelihood(params, t, e) == Neg(P6_log_likelihood(params, t, e))

\* survival_function with the sign of the exponent lost
survival_function_unsigned(params, t) == Exp(P6_cumulative_hazard(params, t))

survival_function(params, t) == Exp(Neg(P6_cumulative_hazard(params, t)))

\* grad_sf = grad(survival_function): the gradient in params at (params, t)
grad_sf(params, t) ==
    LET lambda_ == params[1]
        rho_ == params[2]
        u == Div(t, lambda_)
        ans == survival_function(params, t)
        gH == Neg(Mul(One, ans))
        gu == VjpPowBase(gH, u, rho_)
    IN  << VjpDivDenominator(gu, t, lambda_), VjpPowExponent(gH, u, rho_) >>

\* H = hessian(negative_log_likelihood)(params, t, e): the matrix of second
\* derivatives in (lambda_, rho_), summed over the observations.  With
\* u = t/lambda_, Hc = u ** rho_ and l = log(u), for t > 0:
\*   log hazard :  d2/dlam2 = rho/lam^2,  d2/dlam drho = -1/lam,  d2/drho2 = -1/rho^2
\*   cum. hazard:  d2/dlam2 = rho (rho + 1) Hc / lam^2,
\*                 d2/dlam drho = -Hc/lam - rho Hc l / lam,  d2/drho2 = Hc l^2
HessTerm(params, t, e) ==
    LET lambda_ == params[1]
        rho_ == params[2]
        u == Div(t, lambda_)
        Hc == P6_cumulative_hazard(params, t)
        l == Log(u)
        lam2 == Mul(lambda_, lambda_)
        lh11 == Div(rho_, lam2)
        lh12 == Neg(Div(One, lambda_))
        lh22 == Neg(Div(One, Mul(rho_, rho_)))
        ch11 == Div(Mul(Mul(rho_, Add(rho_, One)), Hc), lam2)
        ch12 == Sub(Neg(Div(Hc, lambda_)), Div(Mul(Mul(rho_, Hc), l), lambda_))
        ch22 == Mul(Hc, Mul(l, l))
        h11 == Sub(ch11, Mul(e, lh11))
        h12 == Sub(ch12, Mul(e, lh12))
        h22 == Sub(ch22, Mul(e, lh22))
    IN  << << h11, h12 >>, << h12, h22 >> >>

MatAdd(A, B) ==
    << << Add(A[1][1], B[1][1]), Add(A[1][2], B[1][2]) >>,
       << Add(A[2][1], B[2][1]), Add(A[2][2], B[2][2]) >> >>

RECURSIVE HessSum(_, _, _, _)
HessSum(params, t, e, n) ==
    IF n = 0 THEN << << Zero, Zero >>, << Zero, Zero >> >>
    ELSE MatAdd(HessSum(params, t, e, n - 1), HessTerm(params, t[n], e[n]))

hessian_negative_log_likelihood(params, t, e) == HessSum(params, t, e, Len(t))

MatFinite(A) == \A i \in 1..2 : \A j \in 1..2 : IsFin(A[i][j])
Det(A) == Sub(Mul(A[1][1], A[2][2]), Mul(A[1][2], A[2][1]))
\* np.linalg.inv raises LinAlgError on an exactly singular matrix
Singular(A) == MatFinite(A) /\ IsZero(Det(A))
\* the adjugate returned for the inverse: the division by the determinant lost
linalg_inv_adjugate(A) ==
    IF ~MatFinite(A) THEN << << NaN, NaN >>, << NaN, NaN >> >>
    ELSE << << A[2][2], Neg(A[1][2]) >>, << Neg(A[2][1]), A[1][1] >> >>

linalg_inv(A) ==
    IF ~MatFinite(A) THEN << << NaN, NaN >>, << NaN, NaN >> >>
    ELSE << << Div(A[2][2], Det(A)), Div(Neg(A[1][2]), Det(A)) >>,
            << Div(Neg(A[2][1]), Det(A)), Div(A[1][1], Det(A)) >> >>

\* the @ operator: vector @ matrix, vector @ vector
VecMat(g, V) ==
    << Add(Mul(g[1], V[1][1]), Mul(g[2], V[2][1])),
       Add(Mul(g[1], V[1][2]), Mul(g[2], V[2][2])) >>
Dot(a, b) == Add(Mul(a[1], b[1]), Mul(a[2], b[2]))
MatMat(A, B) ==
    Tuple([i \in 1..2 |-> Tuple([j \in 1..2 |->
              Add(Mul(A[i][1], B[1][j]), Mul(A[i][2], B[2][j]))])])
Identity == << << One, Zero >>, << Zero, One >> >>

\* x0 = np.array([1.0, 1.0])
x0 == << One, One >>

\* variance_at_t with the right-hand gradient taken at x0, not at estimates_
variance_at_t_mixed(g, t) ==
    Dot(VecMat(grad_sf(g["estimates_"], t), g["variance_matrix_"]), grad_sf(x0, t))

\* variance_at_t(t) reads grad_sf, estimates_ and variance_matrix_ from the
\* kernel's global namespace g, not from its arguments.
variance_at_t(g, t) ==
    Dot(VecMat(grad_sf(g["estimates_"], t), g["variance_matrix_"]),
        grad_sf(g["estimates_"], t))

(***************************************************************************)
(* Bounds of the model and the inputs drawn within them.                   *)
(***************************************************************************)
\* sample size: stands for size=50 (Part 6) and size=1000 (Part 2, autodiff)
SampleSize == 1
\* longest array handed to a function called on its own
MaxLen == 2

\* lifetimes the generator can produce, (exponential / 1.5) ** 2.3 > 0
Lifetimes == { Num(1, 1), Num(4, 1) }
Indicators == { Zero, One }
Arrays(S, n) == [1..n -> S]

\* bounds=((0.00001, NoCall), (0.00001, NoCall)): the box the optimizer stays in
LowerBound == Num(1, 100000)
InBounds(p) ==
    /\ RLeq(AsRat(LowerBound), AsRat(p[1]))
    /\ RLeq(AsRat(LowerBound), AsRat(p[2]))
\* the points minimize may return: any point of the box (converged or not)
Points ==
    { p \in { Num(1, 1), Num(4, 1) } \X { Num(1, 2), Num(1, 1), Num(2, 1) } :
        InBounds(p) }

\* stand-ins for the literals 5 / 5.0 and for the 100-point grids
ProbeTime == Num(4, 1)
P6_Grid == << Num(1, 4), Num(1, 1), Num(4, 1) >>
P2_Grid == << Zero, Num(1, 1), Num(4, 1) >>

(***************************************************************************)
(* The kernel.  ns is the global namespace (name -> value), pc the next    *)
(* cell of the top-to-bottom pass, count the execution counter, outs the   *)
(* value each cell displayed, err the exception that stopped each cell,    *)
(* execution_count the counter value each cell was last run with, calls    *)
(* the minimize calls that returned (objective, jac, data, result).        *)
(* call / ret: a function called on its own and what it returned.          *)
(***************************************************************************)
VARIABLES nb, pc, ns, count, execution_count, outs, err, calls, call, ret

vars == << nb, pc, ns, count, execution_count, outs, err, calls, call, ret >>

Empty == << >>
Bind(g, new) == new @@ g
Bound(g, names) == names \subseteq DOMAIN g
Fun == "function"
Module == "module"

\* a cell's effect: the namespace it leaves, what it displays, the
\* exception that stopped it ("" if none), and the minimize calls that
\* returned in it (a sequence of objective / jac descriptions)
Effect(g, o, x, c) == [ns |-> g, out |-> o, err |-> x, call |-> c]
None == "None"
NoCall == << >>

\* scipy.optimize.minimize(fun, x0, ...) returning the point p
OptimizeResult(p, f) == [x |-> p, fun |-> f]

(***************************************************************************)
(* Part 6: the code cells, each as the effect of executing it in the       *)
(* namespace g.  A statement that raises ends the cell; the bindings made  *)
(* before it stay.                                                         *)
(***************************************************************************)
P6_NCells == 6

\* imports, data, model, minimize, Hessian, inverse (one cell)
P6_Cell1(g, T, E, p) ==
    LET g1 == Bind(g, [np |-> Module, elementwise_grad |-> Fun,
                       value_and_grad |-> Fun, hessian |-> Fun, minimize |-> Fun,
                       T |-> T, E |-> E,
                       cumulative_hazard |-> Fun, hazard |-> Fun, log_hazard |-> Fun,
                       log_likelihood |-> Fun, negative_log_likelihood |-> Fun])
        results == OptimizeResult(p, P6_negative_log_likelihood(p, g1["T"], g1["E"]))
        g2 == Bind(g1, [results |-> results])
        g3 == Bind(g2, [estimates_ |-> g2["results"].x])
        Hm == hessian_negative_log_likelihood(g3["estimates_"], g3["T"], g3["E"])
        g4 == Bind(g3, [H |-> Hm])
        c == << [objective |-> "value_and_grad(negative_log_likelihood)",
                 jac |-> "True", args |-> << g1["T"], g1["E"] >>,
                 result |-> results] >>
    IN  IF Singular(g4["H"]) THEN Effect(g4, None, "LinAlgError", c)
        ELSE Effect(Bind(g4, [variance_matrix_ |-> linalg_inv(g4["H"])]), None, "", c)

\* survival_function, grad_sf, and grad_sf(estimates_, 5.0) displayed
P6_Cell2(g) ==
    LET g1 == Bind(g, [grad |-> Fun, survival_function |-> Fun, grad_sf |-> Fun])
    IN  IF ~Bound(g1, {"estimates_", "np", "cumulative_hazard"})
        THEN Effect(g1, None, "NameError", NoCall)
        ELSE Effect(g1, grad_sf(g1["estimates_"], ProbeTime), "", NoCall)

\* the cell of variance_at_t also rebinding estimates_ (to the starting point)
P6_Cell3_rebinding(g) ==
    Effect(Bind(g, [variance_at_t |-> Fun, estimates_ |-> x0]), None, "", NoCall)

\* def variance_at_t
P6_Cell3(g) == Effect(Bind(g, [variance_at_t |-> Fun]), None, "", NoCall)

\* the names a call of variance_at_t reads from the namespace
VarianceReads ==
    {"variance_at_t", "grad_sf", "estimates_", "variance_matrix_", "np",
     "cumulative_hazard"}

\* variance_at_t(5) displayed
P6_Cell4(g) ==
    IF ~Bound(g, VarianceReads) THEN Effect(g, None, "NameError", NoCall)
    ELSE Effect(g, variance_at_t(g, ProbeTime), "", NoCall)

\* t = np.linspace(.001, 10, 100); std_sf = np.sqrt(np.array([variance_at_t(_) for _ in t]))
P6_Cell5(g) ==
    IF ~Bound(g, {"np"}) THEN Effect(g, None, "NameError", NoCall)
    ELSE LET g1 == Bind(g, [t |-> P6_Grid])
         IN  IF ~Bound(g1, VarianceReads) THEN Effect(g1, None, "NameError", NoCall)
             ELSE Effect(Bind(g1, [std_sf |->
                            Tuple([i \in DOMAIN g1["t"] |->
                                     Sqrt(variance_at_t(g1, g1["t"][i]))])]),
                         None, "", NoCall)

\* 1.65: the half-width of the band in standard deviations
BandFactor == Num(165, 100)

\* the plot cell rebinding estimates_ (to the starting point) as it runs
P6_Cell6_rebinding(g) ==
    IF ~Bound(g, {"plt", "t", "survival_function", "estimates_", "np",
                  "cumulative_hazard", "std_sf"})
    THEN Effect(g, None, "NameError", NoCall)
    ELSE Effect(Bind(g, [estimates_ |-> x0]), None, "", NoCall)

\* the survival curve and the band between y1 and y2
P6_Cell6(g) ==
    IF ~Bound(g, {"plt", "t", "survival_function", "estimates_", "np",
                  "cumulative_hazard", "std_sf"})
    THEN Effect(g, None, "NameError", NoCall)
    ELSE LET S == Tuple([i \in DOMAIN g["t"] |->
                            survival_function(g["estimates_"], g["t"][i])])
             w == Tuple([i \in DOMAIN g["t"] |-> MulRoot(BandFactor, g["std_sf"][i])])
         IN  Effect(g, [curve |-> S,
                        y1 |-> Tuple([i \in DOMAIN S |-> AddRoot(S[i], w[i])]),
                        y2 |-> Tuple([i \in DOMAIN S |-> SubRoot(S[i], w[i])])],
                    "", NoCall)

(***************************************************************************)
(* Part 2: the code cells.  The notebook imports nothing itself: np and    *)
(* plt are bound only if the kernel's start-up bound them.                 *)
(***************************************************************************)
P2_NCells == 5

\* def cumulative_hazard, hazard, log_hazard, log_likelihood
P2_Cell1(g) ==
    Effect(Bind(g, [cumulative_hazard |-> Fun, hazard |-> Fun, log_hazard |-> Fun,
                    log_likelihood |-> Fun]), None, "", NoCall)

\* the first minimize of Part 2 handed negative_log_likelihood instead
P2_Cell2_negated(g, T, E, p) ==
    IF ~Bound(g, {"np"}) THEN Effect(g, None, "NameError", NoCall)
    ELSE LET g1 == Bind(g, [T |-> T, E |-> E, minimize |-> Fun])
         IN  IF ~Bound(g1, {"log_likelihood"}) THEN Effect(g1, None, "NameError", NoCall)
             ELSE LET results ==
                        OptimizeResult(p, P2_negative_log_likelihood(p, g1["T"], g1["E"]))
                  IN  Effect(Bind(g1, [results |-> results]), results, "",
                             << [objective |-> "negative_log_likelihood", jac |-> "None",
                                 args |-> << g1["T"], g1["E"] >>,
                                 result |-> results] >>)

\* T, E; results = minimize(log_likelihood, ...); print(results)
P2_Cell2(g, T, E, p) ==
    IF ~Bound(g, {"np"}) THEN Effect(g, None, "NameError", NoCall)
    ELSE LET g1 == Bind(g, [T |-> T, E |-> E, minimize |-> Fun])
         IN  IF ~Bound(g1, {"log_likelihood"}) THEN Effect(g1, None, "NameError", NoCall)
             ELSE LET results == OptimizeResult(p, P2_log_likelihood(p, g1["T"], g1["E"]))
                  IN  Effect(Bind(g1, [results |-> results]), results, "",
                             << [objective |-> "log_likelihood", jac |-> "None",
                                 args |-> << g1["T"], g1["E"] >>,
                                 result |-> results] >>)

\* a comment only
P2_Cell3(g) == Effect(g, None, "", NoCall)

\* def negative_log_likelihood; results = minimize(<no objective>, x0=..., ...)
P2_Cell4(g) ==
    LET g1 == Bind(g, [negative_log_likelihood |-> Fun])
    IN  IF ~Bound(g1, {"minimize", "np", "T", "E"})
        THEN Effect(g1, None, "NameError", NoCall)
        ELSE Effect(g1, None, "TypeError", NoCall)

\* t = np.linspace(0, 10, 100); plt.plot(t, np.exp(-cumulative_hazard(results.x, t)))
P2_Cell5(g) ==
    IF ~Bound(g, {"np"}) THEN Effect(g, None, "NameError", NoCall)
    ELSE LET g1 == Bind(g, [t |-> P2_Grid])
         IN  IF ~Bound(g1, {"plt", "cumulative_hazard", "results"})
             THEN Effect(g1, None, "NameError", NoCall)
             ELSE Effect(g1,
                         [x |-> g1["results"].x,
                          curve |-> Tuple([i \in DOMAIN g1["t"] |->
                                       P2_plotted_survival(g1["results"].x, g1["t"][i])])],
                         "", NoCall)

(***************************************************************************)
(* The automatic-differentiation notebook: the code cells.                 *)
(***************************************************************************)
P3_NCells == 9

\* import numpy as np, pyplot as plt; def f; x; plot
P3_Cell1(g) ==
    Effect(Bind(g, [np |-> Module, plt |-> Module, f |-> Fun, x |-> "linspace(-2, 2, 250)"]),
           None, "", NoCall)

\* from autograd import grad, numpy as np; def f; grad_f = grad(f); grad_f(1.)
P3_Cell2(g) ==
    Effect(Bind(g, [grad |-> Fun, np |-> Module, f |-> Fun, grad_f |-> Fun]),
           "grad_f(1.)", "", NoCall)

\* x = np.linspace(-2, 2, 250); plt.plot(x, [grad_f(x_) for x_ in x])
P3_Cell3(g) ==
    IF ~Bound(g, {"np"}) THEN Effect(g, None, "NameError", NoCall)
    ELSE LET g1 == Bind(g, [x |-> "linspace(-2, 2, 250)"])
         IN  IF ~Bound(g1, {"plt", "grad_f"}) THEN Effect(g1, None, "NameError", NoCall)
             ELSE Effect(g1, None, "", NoCall)

\* T, E
P3_Cell4(g, T, E) ==
    IF ~Bound(g, {"np"}) THEN Effect(g, None, "NameError", NoCall)
    ELSE Effect(Bind(g, [T |-> T, E |-> E]), None, "", NoCall)

\* def cumulative_hazard, log_hazard, log_likelihood, negative_log_likelihood
P3_Cell5(g) ==
    Effect(Bind(g, [cumulative_hazard |-> Fun, log_hazard |-> Fun,
                    log_likelihood |-> Fun, negative_log_likelihood |-> Fun]),
           None, "", NoCall)

\* grad_negative_log_likelihood = <nothing>: the cell does not compile
P3_Cell6(g) == Effect(g, None, "SyntaxError", NoCall)

\* results = minimize(negative_log_likelihood, ..., jac=grad_negative_log_likelihood, ...)
P3_Cell7(g, p) ==
    LET g1 == Bind(g, [minimize |-> Fun])
    IN  IF ~Bound(g1, {"negative_log_likelihood", "np", "T", "E",
                       "grad_negative_log_likelihood"})
        THEN Effect(g1, None, "NameError", NoCall)
        ELSE LET results ==
                   OptimizeResult(p, P3_negative_log_likelihood(p, g1["T"], g1["E"]))
             IN  Effect(Bind(g1, [results |-> results]), results, "",
                        << [objective |-> "negative_log_likelihood",
                            jac |-> "grad_negative_log_likelihood",
                            args |-> << g1["T"], g1["E"] >>,
                            result |-> results] >>)

\* from autograd import value_and_grad; results = minimize(<no objective>, ..., jac=True)
P3_Cell8(g) ==
    LET g1 == Bind(g, [value_and_grad |-> Fun])
    IN  IF ~Bound(g1, {"minimize", "np", "T", "E"})
        THEN Effect(g1, None, "NameError", NoCall)
        ELSE Effect(g1, None, "TypeError", NoCall)

\* results
P3_Cell9(g) ==
    IF ~Bound(g, {"results"}) THEN Effect(g, None, "NameError", NoCall)
    ELSE Effect(g, g["results"], "", NoCall)

(***************************************************************************)
(* Running cells.  The cells run top to bottom (pc); a cell that raises    *)
(* does not stop the next one from being run.  The saved Part 6 notebook   *)
(* records its first cell with execution count 7 and the others with 2..6: *)
(* after the pass, cells are run again up to that count.                   *)
(***************************************************************************)
RecordedCount == 7

NCells(n) ==
    CASE n = "Part2" -> P2_NCells
      [] n = "Part3" -> P3_NCells
      [] n = "Part6" -> P6_NCells
LastCount(n) == IF n = "Part6" THEN RecordedCount ELSE NCells(n)

CanRun(n, k) ==
    /\ nb = n
    /\ \/ pc = k
       \/ pc > NCells(n) /\ count < LastCount(n)

Execute(k, eff) ==
    /\ ns' = eff.ns
    /\ outs' = (k :> eff.out) @@ outs
    /\ err' = (k :> eff.err) @@ err
    /\ calls' = calls \o Tuple([i \in DOMAIN eff.call |-> [cell |-> k] @@ eff.call[i]])
    /\ count' = count + 1
    /\ execution_count' = (k :> count + 1) @@ execution_count
    /\ pc' = IF pc = k THEN pc + 1 ELSE pc
    /\ UNCHANGED << nb, call, ret >>

Samples == Arrays(Lifetimes, SampleSize) \X Arrays(Indicators, SampleSize)

\* The points minimize returns in Part 6: those of Points at which the
\* Hessian on the data is a matrix of rationals (no term in ln 2), so that
\* its inverse and the quadratic forms built on it are computed exactly.
Estimates(T, E) ==
    { p \in Points :
        \A i \in 1..2 : \A j \in 1..2 :
            IsRat(hessian_negative_log_likelihood(p, T, E)[i][j]) }

P6Cell1 ==
    /\ CanRun("Part6", 1)
    /\ \E d \in Samples : \E p \in Estimates(d[1], d[2]) :
          Execute(1, P6_Cell1(ns, d[1], d[2], p))
P6Cell2 == CanRun("Part6", 2) /\ Execute(2, P6_Cell2(ns))
P6Cell3 == CanRun("Part6", 3) /\ Execute(3, P6_Cell3(ns))
P6Cell4 == CanRun("Part6", 4) /\ Execute(4, P6_Cell4(ns))
P6Cell5 == CanRun("Part6", 5) /\ Execute(5, P6_Cell5(ns))
P6Cell6 == CanRun("Part6", 6) /\ Execute(6, P6_Cell6(ns))

P2Cell1 == CanRun("Part2", 1) /\ Execute(1, P2_Cell1(ns))
P2Cell2 ==
    /\ CanRun("Part2", 2)
    /\ \E d \in Samples : \E p \in Points : Execute(2, P2_Cell2(ns, d[1], d[2], p))
P2Cell3 == CanRun("Part2", 3) /\ Execute(3, P2_Cell3(ns))
P2Cell4 == CanRun("Part2", 4) /\ Execute(4, P2_Cell4(ns))
P2Cell5 == CanRun("Part2", 5) /\ Execute(5, P2_Cell5(ns))

P3Cell1 == CanRun("Part3", 1) /\ Execute(1, P3_Cell1(ns))
P3Cell2 == CanRun("Part3", 2) /\ Execute(2, P3_Cell2(ns))
P3Cell3 == CanRun("Part3", 3) /\ Execute(3, P3_Cell3(ns))
P3Cell4 ==
    /\ CanRun("Part3", 4)
    /\ \E d \in Samples : Execute(4, P3_Cell4(ns, d[1], d[2]))
P3Cell5 == CanRun("Part3", 5) /\ Execute(5, P3_Cell5(ns))
P3Cell6 == CanRun("Part3", 6) /\ Execute(6, P3_Cell6(ns))
P3Cell7 == CanRun("Part3", 7) /\ \E p \in Points : Execute(7, P3_Cell7(ns, p))
P3Cell8 == CanRun("Part3", 8) /\ Execute(8, P3_Cell8(ns))
P3Cell9 == CanRun("Part3", 9) /\ Execute(9, P3_Cell9(ns))

\* a kernel started fresh, or one whose start-up already binds np and plt
Pylab == [np |-> Module, plt |-> Module]

Init ==
    /\ nb \in {"Part2", "Part3", "Part6"}
    /\ pc = 1
    /\ ns \in {Empty, Pylab}
    /\ count = 0
    /\ execution_count = Empty
    /\ outs = Empty
    /\ err = Empty
    /\ calls = << >>
    /\ call = [fn |-> "none"]
    /\ ret = Empty

Next ==
    \/ P2Cell1 \/ P2Cell2 \/ P2Cell3 \/ P2Cell4 \/ P2Cell5
    \/ P3Cell1 \/ P3Cell2 \/ P3Cell3 \/ P3Cell4 \/ P3Cell5
    \/ P3Cell6 \/ P3Cell7 \/ P3Cell8 \/ P3Cell9
    \/ P6Cell1 \/ P6Cell2 \/ P6Cell3 \/ P6Cell4 \/ P6Cell5 \/ P6Cell6

Spec == Init /\ [][Next]_vars

(***************************************************************************)
(* The functions of the notebooks called on their own: params, t and e are *)
(* drawn at the start, and every action is one call, which leaves what the *)
(* function returned in ret.  A function of t is applied to an array       *)
(* elementwise, as numpy does.                                             *)
(***************************************************************************)
Notebooks == {"Part2", "Part3", "Part6"}

\* times a function may be handed: 0 is where the hazard is zero or infinite
Inputs ==
    UNION { Arrays({ Zero, Num(1, 1), Num(4, 1) }, n) \X Arrays(Indicators, n) :
              n \in 1..MaxLen }

cumulative_hazard(n, params, t) ==
    CASE n = "Part2" -> P2_cumulative_hazard(params, t)
      [] n = "Part3" -> P3_cumulative_hazard(params, t)
      [] n = "Part6" -> P6_cumulative_hazard(params, t)
hazard(n, params, t) ==
    CASE n = "Part2" -> P2_hazard(params, t)
      [] n = "Part6" -> P6_hazard(params, t)
log_hazard(n, params, t) ==
    CASE n = "Part2" -> P2_log_hazard(params, t)
      [] n = "Part3" -> P3_log_hazard(params, t)
      [] n = "Part6" -> P6_log_hazard(params, t)
log_likelihood(n, params, t, e) ==
    CASE n = "Part2" -> P2_log_likelihood(params, t, e)
      [] n = "Part3" -> P3_log_likelihood(params, t, e)
      [] n = "Part6" -> P6_log_likelihood(params, t, e)
negative_log_likelihood(n, params, t, e) ==
    CASE n = "Part2" -> P2_negative_log_likelihood(params, t, e)
      [] n = "Part3" -> P3_negative_log_likelihood(params, t, e)
      [] n = "Part6" -> P6_negative_log_likelihood(params, t, e)
\* Part 2 has no function of this name: it plots the expression itself
survival(n, params, t) ==
    CASE n = "Part2" -> P2_plotted_survival(params, t)
      [] n = "Part6" -> survival_function(params, t)

Return(fn, n, v) ==
    /\ call' = [call EXCEPT !.fn = fn, !.nb = n]
    /\ ret' = v
    /\ UNCHANGED << nb, pc, ns, count, execution_count, outs, err, calls >>

CallCumulativeHazard ==
    /\ nb = "none"
    /\ \E n \in Notebooks :
        Return("cumulative_hazard", n,
               Tuple([i \in DOMAIN call.t |-> cumulative_hazard(n, call.params, call.t[i])]))
CallHazard ==
    /\ nb = "none"
    /\ \E n \in {"Part2", "Part6"} :
        Return("hazard", n,
               Tuple([i \in DOMAIN call.t |-> hazard(n, call.params, call.t[i])]))
CallLogHazard ==
    /\ nb = "none"
    /\ \E n \in Notebooks :
        Return("log_hazard", n,
               Tuple([i \in DOMAIN call.t |-> log_hazard(n, call.params, call.t[i])]))
CallLogLikelihood ==
    /\ nb = "none"
    /\ \E n \in Notebooks :
        Return("log_likelihood", n, log_likelihood(n, call.params, call.t, call.e))
CallNegativeLogLikelihood ==
    /\ nb = "none"
    /\ \E n \in Notebooks :
        Return("negative_log_likelihood", n,
               negative_log_likelihood(n, call.params, call.t, call.e))
CallSurvivalFunction ==
    /\ nb = "none"
    /\ \E n \in {"Part2", "Part6"} :
        Return("survival_function", n,
               Tuple([i \in DOMAIN call.t |-> survival(n, call.params, call.t[i])]))

InitFn ==
    /\ nb = "none"
    /\ pc = 0
    /\ ns = Empty
    /\ count = 0
    /\ execution_count = Empty
    /\ outs = Empty
    /\ err = Empty
    /\ calls = << >>
    /\ call \in { [fn |-> "none", nb |-> "none", params |-> p, t |-> a[1], e |-> a[2]] :
                    p \in Points, a \in Inputs }
    /\ ret = Empty

NextFn ==
    \/ CallCumulativeHazard \/ CallHazard \/ CallLogHazard
    \/ CallLogLikelihood \/ CallNegativeLogLikelihood \/ CallSurvivalFunction

SpecFn == InitFn /\ [][NextFn]_vars

(***************************************************************************)
(* The optimizer at work on the Part 2 objective.  minimize is given       *)
(* log_likelihood, x0 = (1, 1), the data (T, E) and lower bounds only: it  *)
(* evaluates the objective at x0 and then at points of the box, which has  *)
(* no upper side.  call holds the point and the data of the evaluation in  *)
(* progress, ret what the objective returned there.                        *)
(***************************************************************************)
\* points of the box the optimizer may move to: the points it may return and
\* points far up the unbounded side
Box == Points \cup ({ Num(1, 1), Num(4, 1) } \X { Num(1024, 1) })

MinimizeStart ==
    /\ nb = "Part2"
    /\ call.fn = "none"
    /\ call' = [call EXCEPT !.fn = "log_likelihood", !.params = x0]
    /\ ret' = P2_log_likelihood(x0, call.t, call.e)
    /\ UNCHANGED << nb, pc, ns, count, execution_count, outs, err, calls >>

MinimizeIterate ==
    /\ nb = "Part2"
    /\ call.fn = "log_likelihood"
    /\ \E p \in Box :
          /\ call' = [call EXCEPT !.params = p]
          /\ ret' = P2_log_likelihood(p, call.t, call.e)
    /\ UNCHANGED << nb, pc, ns, count, execution_count, outs, err, calls >>

\* inside the second cell of Part 2, on data the generator can produce
InitOpt ==
    /\ nb = "Part2"
    /\ pc = 2
    /\ ns = Empty
    /\ count = 1
    /\ execution_count = Empty
    /\ outs = Empty
    /\ err = Empty
    /\ calls = << >>
    /\ call \in { [fn |-> "none", nb |-> "Part2", params |-> x0, t |-> a[1], e |-> a[2]] :
                    a \in UNION { Arrays(Lifetimes, n) \X Arrays(Indicators, n) :
                                    n \in 1..MaxLen } }
    /\ ret = Empty

NextOpt == MinimizeStart \/ MinimizeIterate

SpecOpt == InitOpt /\ [][NextOpt]_vars

(***************************************************************************)
(* Properties.                                                             *)
(***************************************************************************)
\* a <= b as floats compare: false when either side is nan.  Two finite
\* values are compared when they have the same power of e, or the same
\* positive factor, or one of them is zero.
Leq(a, b) ==
    IF a.k = "nan" \/ b.k = "nan" THEN FALSE
    ELSE IF a.k = "ninf" \/ b.k = "inf" THEN TRUE
    ELSE IF a.k = "inf" \/ b.k = "ninf" THEN FALSE
    ELSE IF a.q = b.q THEN PSign(Sub(b, a).n) >= 0
    ELSE IF a.n = b.n /\ PSign(a.n) > 0 THEN RLeq(a.q, b.q)
    ELSE IF IsZero(a) THEN PSign(b.n) >= 0
    ELSE IF IsZero(b) THEN PSign(a.n) <= 0
    ELSE Unrepresentable

\* the sum of a over the indices at which e is 1
RECURSIVE ObservedSum(_, _, _)
ObservedSum(a, e, n) ==
    IF n = 0 THEN Zero
    ELSE IF e[n] = One THEN Add(ObservedSum(a, e, n - 1), a[n])
    ELSE ObservedSum(a, e, n - 1)

\* sum of log_hazard over the observed indices minus sum of cumulative_hazard
CensoredLogLikelihood(n, params, t, e) ==
    Sub(ObservedSum(Tuple([i \in DOMAIN t |-> log_hazard(n, params, t[i])]), e, Len(t)),
        NpSum(Tuple([i \in DOMAIN t |-> cumulative_hazard(n, params, t[i])])))

\* C1: log_likelihood(params, t, e) is the sum of log_hazard over the observed
\* indices only minus the sum of cumulative_hazard over all indices: a
\* censored observation contributes -cumulative_hazard and nothing else,
\* whatever log_hazard is at that index.
C1_CensoredContributesOnlyCumulativeHazard ==
    (call.fn = "log_likelihood" /\ call.nb \in {"Part2", "Part6"}) =>
        ret = CensoredLogLikelihood(call.nb, call.params, call.t, call.e)

\* a call of log_likelihood with a censored time at which log_hazard is infinite
C1_CensoredAtInfiniteLogHazard ==
    /\ call.fn = "log_likelihood"
    /\ call.nb = "Part2"
    /\ \E i \in DOMAIN call.t :
          call.e[i] = Zero /\ ~IsFin(P2_log_hazard(call.params, call.t[i]))

\* v is the derivative in t of cumulative_hazard at t > 0, decided from
\* cumulative_hazard alone.  For rho_ = 1, 2 the cumulative hazard is a
\* polynomial of degree at most 2 in t, whose central difference is its
\* derivative; for rho_ = 1/2 its square is t / lambda_, so 2 H H' = 1 / lambda_.
IsTimeDerivative(params, t, v) ==
    IF AsRat(params[2]) = <<1, 2>>
    THEN Mul(Mul(Num(2, 1), P2_cumulative_hazard(params, t)), v) = Div(One, params[1])
    ELSE v = Div(Sub(P2_cumulative_hazard(params, Add(t, One)),
                     P2_cumulative_hazard(params, Sub(t, One))), Num(2, 1))

\* C2: the hazard is the derivative in t of the cumulative hazard at every
\* t > 0, and the Part 6 hazard (autograd, argnum=1) returns what the Part 2
\* closed form returns.
C2_HazardIsDerivativeOfCumulativeHazard ==
    call.fn = "hazard" =>
        \A i \in DOMAIN call.t :
            /\ ret[i] = P2_hazard(call.params, call.t[i])
            /\ ~IsZero(call.t[i]) => IsTimeDerivative(call.params, call.t[i], ret[i])

\* the Part 6 hazard called at a positive time with a fractional shape
C2_AutogradHazardCalled ==
    /\ call.fn = "hazard"
    /\ call.nb = "Part6"
    /\ call.params[2] = Num(1, 2)
    /\ \E i \in DOMAIN call.t : call.t[i] = Num(4, 1) /\ IsFin(ret[i]) /\ ~IsZero(ret[i])

\* the quadratic form sum_i sum_j g[i] V[i][j] g[j], written out term by term
QuadraticForm(g, V) ==
    Add(Add(Mul(Mul(g[1], V[1][1]), g[1]), Mul(Mul(g[1], V[1][2]), g[2])),
        Add(Mul(Mul(g[2], V[2][1]), g[1]), Mul(Mul(g[2], V[2][2]), g[2])))
DeltaVariance(g, t) ==
    QuadraticForm(grad_sf(g["estimates_"], t), g["variance_matrix_"])

\* C3: every variance_at_t(t) is the quadratic form g V g^T with g the
\* gradient of survival_function at (estimates_, t) on both sides and V the
\* variance_matrix_: the value displayed by the cell calling variance_at_t
\* and every entry under the root in std_sf.
C3_VarianceIsDeltaQuadraticForm ==
    [][ /\ (P6Cell4 /\ err'[4] = "") => outs'[4] = DeltaVariance(ns, ProbeTime)
        /\ (P6Cell5 /\ err'[5] = "") =>
              \A i \in DOMAIN P6_Grid :
                  ns'["std_sf"][i] = Sqrt(DeltaVariance(ns, P6_Grid[i])) ]_vars

\* variance_at_t has returned a non-zero variance and std_sf is computed
C3_VarianceComputed ==
    /\ nb = "Part6"
    /\ {4, 5} \subseteq DOMAIN err
    /\ err[4] = "" /\ err[5] = ""
    /\ IsFin(outs[4]) /\ ~IsZero(outs[4])
    /\ ns["estimates_"] # x0

\* C4: variance_matrix_ is the inverse of H, and H is the Hessian of
\* negative_log_likelihood at the point minimize returned, on the data that
\* minimize was given: variance_matrix_ times H is the identity.
C4_VarianceMatrixIsInverseHessian ==
    (nb = "Part6" /\ Bound(ns, {"variance_matrix_"})) =>
        /\ calls # << >>
        /\ calls[Len(calls)].result = ns["results"]
        /\ calls[Len(calls)].args = << ns["T"], ns["E"] >>
        /\ ns["H"] = hessian_negative_log_likelihood(ns["results"].x, ns["T"], ns["E"])
        /\ MatMat(ns["variance_matrix_"], ns["H"]) = Identity

\* the inverse of a Hessian that is not diagonal has been bound
C4_InverseOfFullHessian ==
    /\ nb = "Part6"
    /\ Bound(ns, {"variance_matrix_"})
    /\ ~IsZero(ns["H"][1][2])
    /\ ns["variance_matrix_"] # ns["H"]

C6_MinusInfinityPropagates ==
    /\ (call.fn = "log_hazard" /\ call.nb = "Part2") =>
          \A i \in DOMAIN call.t :
              Sign(P2_hazard(call.params, call.t[i])) <= 0 => ret[i] = NInf
    /\ (/\ call.fn = "log_likelihood"
        /\ call.nb = "Part2"
        /\ \E i \in DOMAIN call.t :
              call.e[i] = One /\ Sign(P2_hazard(call.params, call.t[i])) <= 0)
          => ret = NInf

\* log_likelihood of Part 2 called with a zero hazard at an observed time
C6_ZeroHazardObserved ==
    /\ call.fn = "log_likelihood"
    /\ call.nb = "Part2"
    /\ \E i \in DOMAIN call.t :
          call.e[i] = One /\ IsZero(P2_hazard(call.params, call.t[i]))
    /\ ret = NInf

C8_NoStateBeyondLocals ==
    (/\ nb = "Part6"
     /\ 4 \in DOMAIN err
     /\ err[4] = ""
     /\ Bound(ns, VarianceReads))
        => variance_at_t(ns, ProbeTime) = outs[4]

\* C8: variance_at_t reads the module-level names estimates_ and
\* variance_matrix_, which the first cell binds: a call with the argument of
\* an earlier call returns what that call returned as long as the first cell
\* has not run again since.
C8_VarianceReadsFittedGlobals ==
    (/\ nb = "Part6"
     /\ 4 \in DOMAIN err
     /\ err[4] = ""
     /\ Bound(ns, VarianceReads)
     /\ execution_count[1] < execution_count[4])
        => variance_at_t(ns, ProbeTime) = outs[4]

\* cells were run again after variance_at_t(5) was displayed, the first not
C8_CellsRunAgain ==
    /\ nb = "Part6"
    /\ count = RecordedCount
    /\ execution_count[1] = 1
    /\ execution_count[4] = 4
    /\ err[4] = ""
    /\ IsFin(outs[4]) /\ ~IsZero(outs[4])

NegatedObjectives ==
    {"negative_log_likelihood", "value_and_grad(negative_log_likelihood)"}

\* C9 as stated: every minimize call is given the negative log-likelihood,
\* never the log-likelihood.
C9_EveryObjectiveNegated ==
    \A i \in DOMAIN calls : calls[i].objective \in NegatedObjectives

\* C9: the minimize call of Part 6 is given value_and_grad of the negative
\* log-likelihood with jac=True and estimates_ is the point it returned; the
\* one minimize call of Part 2 that returns is given log_likelihood itself,
\* and the results.x Part 2 plots is the point that call returned.
C9_ObjectivePerNotebook ==
    /\ \A i \in DOMAIN calls :
          LET c == calls[i] IN
          IF nb = "Part2"
          THEN /\ c.cell = 2
               /\ c.objective = "log_likelihood"
               /\ c.result.fun = P2_log_likelihood(c.result.x, c.args[1], c.args[2])
          ELSE /\ c.objective = "value_and_grad(negative_log_likelihood)"
               /\ c.jac = "True"
               /\ c.result.fun = Neg(P6_log_likelihood(c.result.x, c.args[1], c.args[2]))
    /\ (nb = "Part2" /\ 5 \in DOMAIN err /\ err[5] = "") =>
          /\ Len(calls) = 1
          /\ outs[5].x = calls[1].result.x
    /\ (nb = "Part6" /\ Bound(ns, {"estimates_"})) =>
          ns["estimates_"] = calls[Len(calls)].result.x

\* Part 2 has plotted the point returned by its minimize call
C9_Part2Plotted ==
    /\ nb = "Part2"
    /\ 5 \in DOMAIN err
    /\ err[5] = ""
    /\ Len(calls) = 1
    /\ outs[5].x # x0

\* C10: the three log_hazard implementations return the same value for
\* every lambda_ > 0, rho_ > 0 and t >= 0, the infinite or undefined values
\* at t = 0 included.
C10_LogHazardsAgree ==
    call.fn = "log_hazard" =>
        \A i \in DOMAIN call.t :
            /\ ret[i] = P2_log_hazard(call.params, call.t[i])
            /\ ret[i] = P3_log_hazard(call.params, call.t[i])
            /\ ret[i] = P6_log_hazard(call.params, call.t[i])

\* the autodiff notebook's log_hazard called at t = 0 with rho_ = 1
C10_ExponentialAtZero ==
    /\ call.fn = "log_hazard"
    /\ call.nb = "Part3"
    /\ call.params[2] = One
    /\ \E i \in DOMAIN call.t : IsZero(call.t[i]) /\ ret[i] = NaN

\* C11: at every point of the box at which minimize evaluates the Part 2
\* objective, and every generated lifetime t > 0, the hazard is strictly
\* positive, so log_hazard never takes the log of zero or of a negative
\* number.
C11_HazardPositiveInBox ==
    (nb = "Part2" /\ call.fn = "log_likelihood") =>
        /\ InBounds(call.params)
        /\ \A i \in DOMAIN call.t :
              /\ Sign(call.t[i]) > 0
              /\ Sign(P2_hazard(call.params, call.t[i])) > 0

\* the objective evaluated in the box where the hazard of an observed
\* lifetime is zero: the log of zero is in the sum
C11_ZeroHazardInBox ==
    /\ nb = "Part2"
    /\ call.fn = "log_likelihood"
    /\ InBounds(call.params)
    /\ \E i \in DOMAIN call.t :
          /\ Sign(call.t[i]) > 0
          /\ call.e[i] = One
          /\ IsZero(P2_hazard(call.params, call.t[i]))
          /\ P2_log_hazard(call.params, call.t[i]) = NInf
    /\ ~IsFin(ret)

\* C12: in Part 6, whatever point minimize returned, variance_at_t(t) is
\* non-negative at every grid point t, so every entry of std_sf is the root
\* of a non-negative number and none is nan.
C12_VarianceNonNegativeOnGrid ==
    (nb = "Part6" /\ 5 \in DOMAIN err /\ err[5] = ""
       /\ Bound(ns, VarianceReads \cup {"t", "std_sf"})) =>
        \A i \in DOMAIN ns["t"] :
            /\ PSign(variance_at_t(ns, ns["t"][i]).n) >= 0
            /\ ns["std_sf"][i] # NaN

\* std_sf computed from the inverse of a Hessian that is not positive
\* definite, with a negative variance under the root at a grid point
C12_NegativeVarianceUnderRoot ==
    /\ nb = "Part6"
    /\ 5 \in DOMAIN err
    /\ err[5] = ""
    /\ Bound(ns, VarianceReads \cup {"t", "std_sf", "H"})
    /\ Sign(Det(ns["H"])) < 0
    /\ \E i \in DOMAIN ns["t"] :
          /\ IsFin(variance_at_t(ns, ns["t"][i]))
          /\ PSign(variance_at_t(ns, ns["t"][i]).n) < 0
          /\ ns["std_sf"][i] = NaN

\* C13: running the code cells of a notebook once, top to bottom, in a
\* kernel that started with nothing bound, every cell runs to completion: no
\* cell stops on an undefined name, a missing argument or a syntax error.
\* (Part 2 and Part 6 never bind plt, so plt unbound tells a fresh start;
\* the autodiff notebook binds np and plt itself in its first cell.)
C13_EveryCellCompletes ==
    (count <= NCells(nb) /\ (nb = "Part3" \/ ~Bound(ns, {"plt"}))) =>
        \A k \in DOMAIN err : err[k] = ""

\* Part 6 run once from a fresh kernel: the first five cells completed and
\* the plot cell stopped on the name plt
C13_Part6PlotWithoutPyplot ==
    /\ nb = "Part6"
    /\ count = P6_NCells
    /\ execution_count = << 1, 2, 3, 4, 5, 6 >>
    /\ \A k \in 1..5 : err[k] = ""
    /\ err[6] = "NameError"
    /\ Bound(ns, {"t", "survival_function", "estimates_", "std_sf"})
    /\ ~Bound(ns, {"plt"})

\* C14: for lambda_ > 0 and rho_ > 0, cumulative_hazard is 0 at t = 0,
\* non-negative for t >= 0 and non-decreasing in t; the survival
\* exp(-cumulative_hazard) is 1 at t = 0, never increases in t and lies in
\* [0, 1].
C14_CumulativeHazardMonotone ==
    /\ call.fn = "cumulative_hazard" =>
          \A i \in DOMAIN call.t :
              /\ IsZero(call.t[i]) => ret[i] = Zero
              /\ Leq(Zero, ret[i])
              /\ \A j \in DOMAIN call.t :
                    Leq(call.t[i], call.t[j]) => Leq(ret[i], ret[j])
    /\ call.fn = "survival_function" =>
          \A i \in DOMAIN call.t :
              /\ IsZero(call.t[i]) => ret[i] = One
              /\ Leq(Zero, ret[i]) /\ Leq(ret[i], One)
              /\ \A j \in DOMAIN call.t :
                    Leq(call.t[i], call.t[j]) => Leq(ret[j], ret[i])

\* the survival evaluated at 0 and at a later time, where it is lower
C14_SurvivalFallsFromOne ==
    /\ call.fn = "survival_function"
    /\ \E i, j \in DOMAIN call.t :
          /\ IsZero(call.t[i]) /\ ret[i] = One
          /\ ~IsZero(call.t[j]) /\ ret[j] # One /\ Leq(ret[j], ret[i])

\* C15: when the plot cell of Part 6 runs, at every grid point the curve is
\* S = survival_function(estimates_, t), the band's edges are S + 1.65 *
\* std_sf above and S - 1.65 * std_sf below with std_sf the root of the
\* variance at the same estimates_, lower <= S <= upper, and the two edges
\* meet exactly where the variance is zero.
C15_BandAroundEstimate ==
    [][ (P6Cell6 /\ err'[6] = "") =>
          \A i \in DOMAIN P6_Grid :
              LET S == survival_function(ns["estimates_"], P6_Grid[i])
                  variance == variance_at_t(ns, P6_Grid[i])
                  upper == outs'[6].y1[i]
                  lower == outs'[6].y2[i]
              IN  /\ outs'[6].curve[i] = S
                  /\ ns["std_sf"][i] = Sqrt(variance)
                  /\ IF upper.k = "sum"
                     THEN /\ lower.k = "sum"
                          /\ upper.a = S /\ lower.a = S
                          /\ upper.sign = 1 /\ lower.sign = -1
                          /\ upper.r = MulRoot(BandFactor, ns["std_sf"][i])
                          /\ lower.r = upper.r
                     ELSE Leq(lower, S) /\ Leq(S, upper)
                  /\ (upper = lower /\ upper # NaN) <=> IsZero(variance) ]_vars

\* the band drawn with an edge that is nan at a grid point, where the
\* variance under the root of std_sf is negative
C15_BandEdgeUndefined ==
    /\ nb = "Part6"
    /\ count = P6_NCells
    /\ err[6] = ""
    /\ \E i \in DOMAIN P6_Grid :
          /\ IsFin(outs[6].curve[i])
          /\ outs[6].y1[i] = NaN /\ outs[6].y2[i] = NaN
          /\ ns["std_sf"][i] = NaN
          /\ PSign(variance_at_t(ns, P6_Grid[i]).n) < 0

=============================================================================
